---- MODULE Spec2Model ----
(***************************************************************************)
(* Model of coidb's consensus taxonomy calculation and orchestration       *)
(* (src/src/coidb/scripts/consensus_taxonomy.py), of the repair of         *)
(* non-unique lineages (src/src/coidb/scripts/fix_non_unique_lineages.py)  *)
(* and of the filling of missing ranks                                     *)
(* (src/workflow/scripts/fill_missing.py).                                 *)
(*                                                                         *)
(* A taxonomic label is a sequence of one-character strings, so that the   *)
(* placeholder pattern _X+$ and the 'unresolved.' prefix are computed on   *)
(* the text of the label.  A row of the dataframe is a record with one     *)
(* field per rank column, bin_uri and the weight n.  The percentage of a   *)
(* group is computed as the code computes it, in IEEE-754 double           *)
(* precision.                                                              *)
(***************************************************************************)
EXTENDS Integers, Sequences, FiniteSets, TLC

VARIABLES df, ranks, call, pc, result,
          non_unique, pass, existing, dataframes, consensus_list,
          dups, fix_df, bins_to_remove, loop_rank, loop_taxa, unique_df

vars == <<df, ranks, call, pc, result,
          non_unique, pass, existing, dataframes, consensus_list,
          dups, fix_df, bins_to_remove, loop_rank, loop_taxa, unique_df>>

\* The variables of the repair and of the orchestrator, which a single call
\* of calculate_consensus leaves alone.
tableVars == <<non_unique, pass, existing, dataframes, consensus_list>>

\* The variables of a run of the repair script: the locals of its main and
\* of the loop of fix_non_unique_lineages (fix_df is the local df of the
\* function, loop_rank and loop_taxa the position of its two loops: the
\* rank of the outer loop and the labels the inner loop has yet to take).
scriptVars == <<dups, fix_df, bins_to_remove, loop_rank, loop_taxa, unique_df>>

\* No run of the repair script has begun.
ScriptIdle ==
    /\ dups = <<>>
    /\ fix_df = <<>>
    /\ bins_to_remove = {}
    /\ loop_rank = ""
    /\ loop_taxa = {}
    /\ unique_df = <<>>

----------------------------------------------------------------------------
(* Bounds of the model.                                                    *)

\* Largest number of rows in one BIN group.
MaxRecords == 3

----------------------------------------------------------------------------
(* IEEE-754 double precision, for  n / n.sum() * 100  >= threshold.        *)
(* A double is [m |-> limbs, e |-> exponent] with value m * 2^e.           *)

\* Precision of a Float64 significand.
MantissaBits == 53

\* Significands are kept as five limbs, most significant first: one leading
\* limb of one bit and four limbs of LimbBits bits.
LimbBits == (MantissaBits - 1) \div 4

RECURSIVE Pow2(_)
Pow2(k) == IF k = 0 THEN 1 ELSE 2 * Pow2(k - 1)

LimbBase == Pow2(LimbBits)

RECURSIVE BitLen(_)
BitLen(v) == IF v = 0 THEN 0 ELSE 1 + BitLen(v \div 2)

\* Carry propagation from the least significant limb; the leading limb
\* absorbs the last carry.
RECURSIVE Propagate(_, _)
Propagate(l, c) ==
    IF Len(l) = 1 THEN <<l[1] + c>>
    ELSE LET k == Len(l)
             s == l[k] + c
         IN  Propagate(SubSeq(l, 1, k - 1), s \div LimbBase)
                 \o <<s % LimbBase>>

\* Smallest k with n * 2^k >= d, for 1 <= n <= d.
RECURSIVE NormShift(_, _)
NormShift(n, d) == IF n >= d THEN 0 ELSE 1 + NormShift(2 * n, d)

\* Long division: cnt further quotient limbs of (r * LimbBase^cnt) / d,
\* r < d, and the last remainder.
RECURSIVE DivLimbs(_, _, _, _)
DivLimbs(r, d, cnt, acc) ==
    IF cnt = 0 THEN [q |-> acc, rem |-> r]
    ELSE DivLimbs((r * LimbBase) % d, d, cnt - 1,
                  Append(acc, (r * LimbBase) \div d))

\* The double nearest to n / d (ties to even), for integers 1 <= n <= d.
FloatDiv(n, d) ==
    LET k   == NormShift(n, d)
        r0  == n * Pow2(k)
        res == DivLimbs(r0 % d, d, 4, <<r0 \div d>>)
        up  == 2 * res.rem > d \/ (2 * res.rem = d /\ res.q[5] % 2 = 1)
    IN  [m |-> IF up THEN Propagate(res.q, 1) ELSE res.q,
         e |-> 0 - (MantissaBits - 1) - k]

\* The double nearest to x * 100 (ties to even): the exact product, with
\* the bits beyond MantissaBits rounded away.
FloatTimes100(x) ==
    LET p    == Propagate([i \in 1..5 |-> x.m[i] * 100], 0)
        g    == BitLen(p[1]) - 1
        unit == Pow2(g)
        low  == p[5] % unit
        up   == g > 0 /\ (2 * low > unit
                          \/ (2 * low = unit /\ (p[5] \div unit) % 2 = 1))
    IN  [m |-> Propagate([p EXCEPT ![5] = p[5] - low
                                          + (IF up THEN unit ELSE 0)], 0),
         e |-> x.e]

\* The integer part of a double 0 <= x.
FloatFloor(x) == x.m[1] \div Pow2((0 - x.e) - (MantissaBits - 1))

\* floor of the column 'percent' for a group of weight n in a frame of
\* total weight total.
PercentFloor(n, total) == FloatFloor(FloatTimes100(FloatDiv(n, total)))

----------------------------------------------------------------------------
(* Labels and the input domain.                                            *)

\* regex = re.compile(r"_X+$"); regex.search(label)
IsPlaceholder(label) ==
    \E i \in 1..(Len(label) - 1) :
        /\ label[i] = "_"
        /\ \A j \in (i + 1)..Len(label) : label[j] = "X"

\* A faulty variant of UnresolvedLabel: the marker is left off.
UnresolvedLabelBare(last_known) == last_known

\* f"unresolved.{last_known}"
UnresolvedLabel(last_known) == <<"unresolved.">> \o last_known

IsUnresolved(label) == Len(label) > 0 /\ label[1] = "unresolved."

\* The rank columns, parent to child.
AllRanks == <<"family", "genus", "species">>

\* The rank lists a caller passes: the leading columns, down to none.
RankLists == {SubSeq(AllRanks, 1, k) : k \in 0..Len(AllRanks)}

Lineage(f, g, sp) == [family |-> f, genus |-> g, species |-> sp]

\* Filled lineages of the records of one BIN: two species of one genus, the
\* same genus and species under another family, and placeholder chains
\* below the family (one with a named species, as in the test fixture).
Lineages ==
    << Lineage(<<"G">>, <<"A">>, <<"l">>),
       Lineage(<<"G">>, <<"A">>, <<"h">>),
       Lineage(<<"N">>, <<"A">>, <<"h">>),
       Lineage(<<"G">>, <<"G", "_", "X">>, <<"h">>),
       Lineage(<<"G">>, <<"G", "_", "X">>, <<"G", "_", "X", "X">>) >>

\* Vote weights n: 2 and 6 as in the test fixture (8 of 10 is 80%), 21 and
\* 29 for a share of exactly 58%.
Weights == {2, 6, 21, 29}

\* threshold is an integer percentage (argparse type=int).
Thresholds == {40, 58, 80}

Methods == {"full", "rank"}

Row(l, w) ==
    [bin_uri |-> "BIN", family |-> l.family, genus |-> l.genus,
     species |-> l.species, n |-> w]

\* The frames of at most MaxRecords rows, one row order per multiset of
\* rows: calculate_consensus reads the row order only through the sort of
\* tied rows, which calculate_consensus leaves as a choice.
Frames ==
    UNION { { [j \in 1..k |-> Row(Lineages[ix[j]], w[j])] :
                <<ix, w>> \in
                    { p \in [1..k -> 1..Len(Lineages)] \X [1..k -> Weights] :
                        \A j \in 1..(k - 1) :
                            \/ p[1][j] < p[1][j + 1]
                            \/ p[1][j] = p[1][j + 1] /\ p[2][j] <= p[2][j + 1] } } :
            k \in 0..MaxRecords }

----------------------------------------------------------------------------
(* cons and calculate_consensus.                                           *)

RECURSIVE SumN(_, _)
SumN(frame, idx) ==
    IF idx = {} THEN 0
    ELSE LET j == CHOOSE x \in idx : TRUE
         IN  frame[j].n + SumN(frame, idx \ {j})

\* A faulty variant of GroupKey: the labels are taken in the reverse order
\* of the columns.
GroupKeyReversed(row, group_by) ==
    [i \in 1..Len(group_by) |-> row[group_by[Len(group_by) + 1 - i]]]

\* The labels of a row in the columns group_by.
GroupKey(row, group_by) == [i \in 1..Len(group_by) |-> row[group_by[i]]]

\* pl.col("percent") >= threshold
Qualifies(n, total, threshold) == PercentFloor(n, total) >= threshold

\* The numbers of the rows of frame whose labels in group_by are key.
RowsOf(frame, group_by, key) ==
    {j \in 1..Len(frame) : GroupKey(frame[j], group_by) = key}

\* df.group_by(group_by).agg(pl.col("n").sum()): one row per distinct key,
\* [key |-> the labels in the columns group_by, n |-> summed weight].
Grouped(frame, group_by) ==
    { [key |-> k, n |-> SumN(frame, RowsOf(frame, group_by, k))] :
        k \in {GroupKey(frame[j], group_by) : j \in 1..Len(frame)} }

\* A faulty variant of DropMissing: nothing is filtered out.
DropMissingNothing(groups) == groups

\* _df.filter(~pl.any_horizontal(pl.col(group_by).str.contains(r"_X+$")))
DropMissing(groups) ==
    {g \in groups : ~\E i \in 1..Len(g.key) : IsPlaceholder(g.key[i])}

RECURSIVE SumGroups(_)
SumGroups(groups) ==
    IF groups = {} THEN 0
    ELSE LET g == CHOOSE x \in groups : TRUE
         IN  g.n + SumGroups(groups \ {g})

\* cons(df, group_by, threshold, exclude_missing_data): the rows of _df.
cons(frame, group_by, threshold, exclude_missing_data) ==
    LET grouped == Grouped(frame, group_by)
        kept    == IF exclude_missing_data THEN DropMissing(grouped)
                   ELSE grouped
        total   == SumGroups(kept)
    IN  {g \in kept : Qualifies(g.n, total, threshold)}

\* group_by of iteration i: ranks[:i] for 'full', ranks[i - 1] for 'rank'.
GroupBy(rks, method, i) ==
    IF method = "full" THEN SubSeq(rks, 1, i) ELSE <<rks[i]>>

\* A faulty variant of RankLoop: the ranks are walked from the first to the
\* last.
RECURSIVE RankLoopFrom(_, _, _, _, _, _, _)
RankLoopFrom(frame, rks, threshold, method, exclude_missing_data, i, last) ==
    LET _df == cons(frame, GroupBy(rks, method, i), threshold,
                    exclude_missing_data)
    IN  IF Cardinality(_df) = 1 \/ i = last
        THEN [i |-> i, _df |-> _df]
        ELSE RankLoopFrom(frame, rks, threshold, method,
                          exclude_missing_data, i + 1, last)

RankLoopAscending(frame, rks, threshold, method, exclude_missing_data, i) ==
    RankLoopFrom(frame, rks, threshold, method, exclude_missing_data, 1, i)

\* The for loop: from i down to 1, stop at the first i whose _df has one
\* row; [i, _df] as the loop leaves them.
RECURSIVE RankLoop(_, _, _, _, _, _)
RankLoop(frame, rks, threshold, method, exclude_missing_data, i) ==
    LET _df == cons(frame, GroupBy(rks, method, i), threshold,
                    exclude_missing_data)
    IN  IF Cardinality(_df) = 1 \/ i = 1
        THEN [i |-> i, _df |-> _df]
        ELSE RankLoop(frame, rks, threshold, method, exclude_missing_data,
                      i - 1)

\* calc_unassigned(row): the number of placeholder labels in a row.
calc_unassigned(labels) ==
    Cardinality({i \in 1..Len(labels) : IsPlaceholder(labels[i])})

\* A faulty variant of SortHead: the weight n is sorted in ascending order.
SortHeadLightest(frame, rows, resolved_ranks) ==
    LET un(j) == calc_unassigned(GroupKey(frame[j], resolved_ranks))
        before(j, k) == \/ un(j) < un(k)
                        \/ un(j) = un(k) /\ frame[j].n <= frame[k].n
    IN  {j \in rows : \A k \in rows : before(j, k)}

\* rows_at_rank.sort(["unassigned", "n"], descending=[False, True]).head(1):
\* the rows that can come first. Rows that tie on both keys are left in an
\* unspecified order (maintain_order is not set).
SortHead(frame, rows, resolved_ranks) ==
    LET un(j) == calc_unassigned(GroupKey(frame[j], resolved_ranks))
        before(j, k) == \/ un(j) < un(k)
                        \/ un(j) = un(k) /\ frame[j].n >= frame[k].n
    IN  {j \in rows : \A k \in rows : before(j, k)}

\* A faulty variant of Failure: the exception is swallowed.
FailureSwallowed(error) ==
    [status |-> "ok", bin_uri |-> "", lineage |-> <<>>, last_known_rank |-> 0]

\* An exception leaves the call: no consensus_df is returned.
Failure(error) ==
    [status |-> error, bin_uri |-> "", lineage |-> <<>>, last_known_rank |-> 0]

\* calculate_consensus(df, ranks, threshold, method, exclude_missing_data):
\* the results the call can have. lineage holds the labels in the columns
\* ranks; last_known_rank is the position in ranks of the local of that name.
calculate_consensus(frame, rks, threshold, method, exclude_missing_data) ==
    IF Len(frame) = 0 THEN {Failure("IndexError")}
    ELSE IF Len(rks) = 0 THEN {Failure("UnboundLocalError")}
    ELSE
    LET loop == RankLoop(frame, rks, threshold, method, exclude_missing_data,
                         Len(rks))
        i    == loop.i
        _df  == loop._df
    IN  IF Cardinality(_df) # 1 THEN {Failure("ValueError")}
        ELSE
        LET row == CHOOSE g \in _df : TRUE
            last_known == row.key[Len(row.key)]
            resolved_ranks == SubSeq(rks, 1, i)
            unresolved == [k \in 1..(Len(rks) - i) |-> UnresolvedLabel(last_known)]
            rows_at_rank == {j \in 1..Len(frame) : frame[j][rks[i]] = last_known}
            resolved ==
                IF method = "rank"
                THEN {GroupKey(frame[j], resolved_ranks) :
                        j \in IF Cardinality(rows_at_rank) > 1
                              THEN SortHead(frame, rows_at_rank, resolved_ranks)
                              ELSE rows_at_rank}
                ELSE {row.key}
        IN  { [status |-> "ok", bin_uri |-> frame[1].bin_uri,
               lineage |-> r \o unresolved, last_known_rank |-> i] :
              r \in resolved }

----------------------------------------------------------------------------
(* The state machine: a caller holds a BIN group and a rank list and calls *)
(* calculate_consensus once.                                               *)

NoCall == [threshold |-> 0, method |-> "", exclude_missing_data |-> FALSE]

NoResult == Failure("")

Init ==
    /\ df \in Frames
    /\ ranks \in RankLists
    /\ call = NoCall
    /\ pc = "start"
    /\ result = NoResult
    /\ non_unique = <<>>
    /\ pass = 0
    /\ existing = <<>>
    /\ dataframes = <<>>
    /\ consensus_list = <<>>
    /\ ScriptIdle

CalculateConsensus ==
    /\ pc = "start"
    /\ \E threshold \in Thresholds, method \in Methods,
          exclude_missing_data \in BOOLEAN :
          /\ call' = [threshold |-> threshold, method |-> method,
                      exclude_missing_data |-> exclude_missing_data]
          /\ result' \in calculate_consensus(df, ranks, threshold, method,
                                             exclude_missing_data)
    /\ pc' = "done"
    /\ UNCHANGED <<df, ranks>>
    /\ UNCHANGED tableVars
    /\ UNCHANGED scriptVars

Next == CalculateConsensus

Spec == Init /\ [][Next]_vars

----------------------------------------------------------------------------
(* Properties.  A share is "at least threshold percent" when               *)
(* weight * 100 >= threshold * total, in exact arithmetic.                 *)

Done == pc = "done"

Ok == Done /\ result.status = "ok"

NonEmptyInput == Len(df) > 0 /\ Len(ranks) > 0

Max(S) == CHOOSE x \in S : \A y \in S : y <= x

ExactShare(n, total, threshold) == n * 100 >= threshold * total

\* The groups of frame by group_by whose share of the total weight of the
\* groups that take part in the vote passes Test.
Quorum(Test(_, _, _), frame, group_by, threshold, exclude_missing_data) ==
    LET kept == IF exclude_missing_data
                THEN DropMissing(Grouped(frame, group_by))
                ELSE Grouped(frame, group_by)
    IN  {g \in kept : Test(g.n, SumGroups(kept), threshold)}

\* The depths i at which exactly one group of the call's method passes Test.
QuorumDepths(Test(_, _, _)) ==
    {i \in 1..Len(ranks) :
        Cardinality(Quorum(Test, df, GroupBy(ranks, call.method, i),
                           call.threshold, call.exclude_missing_data)) = 1}

\* The result is resolved at the deepest depth at which exactly one group
\* passes Test, with the labels of that group in the columns it is grouped
\* by.
ResolvedAtDeepest(Test(_, _, _)) ==
    QuorumDepths(Test) # {} =>
        LET i == Max(QuorumDepths(Test))
            g == CHOOSE x \in Quorum(Test, df, GroupBy(ranks, call.method, i),
                                     call.threshold,
                                     call.exclude_missing_data) : TRUE
        IN  /\ result.status = "ok"
            /\ result.last_known_rank = i
            /\ IF call.method = "full"
               THEN SubSeq(result.lineage, 1, i) = g.key
               ELSE result.lineage[i] = g.key[1]

\* C1: method 'full', non-empty BIN group: the result is resolved at the
\* largest depth i at which exactly one group of records sharing the labels
\* at ranks[0:i] has at least threshold percent of the BIN's total weight,
\* and its labels at ranks[0:i] are that group's labels.
C1_FullDeepestQuorum ==
    (Done /\ NonEmptyInput /\ call.method = "full"
          /\ ~call.exclude_missing_data)
        => ResolvedAtDeepest(ExactShare)

\* C1, with the share of a group taken as the code computes the column
\* 'percent' (in floating point): the search of 'full' stops at the deepest
\* depth with exactly one qualifying group.
C1_FullDeepestQuorumAsComputed ==
    (Done /\ NonEmptyInput /\ call.method = "full")
        => ResolvedAtDeepest(Qualifies)

\* C2: in a result, every rank deeper than the resolved rank carries
\* 'unresolved.<L>', L the winning label at the resolved rank; no rank at or
\* above the resolved rank carries an unresolved marker; with a quorum at
\* the last configured rank no label is unresolved.
C2_UnresolvedLabels ==
    Ok =>
        LET i == result.last_known_rank
            winners == cons(df, GroupBy(ranks, call.method, i), call.threshold,
                            call.exclude_missing_data)
        IN  /\ i \in 1..Len(ranks)
            /\ Len(result.lineage) = Len(ranks)
            /\ \E g \in winners : g.key[Len(g.key)] = result.lineage[i]
            /\ \A k \in (i + 1)..Len(ranks) :
                   result.lineage[k] = <<"unresolved.">> \o result.lineage[i]
            /\ \A k \in 1..i : ~IsUnresolved(result.lineage[k])
            /\ (i = Len(ranks) =>
                   \A k \in 1..Len(ranks) : ~IsUnresolved(result.lineage[k]))

\* C2 witness: a 'rank' result resolved above the last rank, with the
\* ranks below it unresolved.
C2_Witness ==
    /\ Ok /\ call.method = "rank"
    /\ Len(ranks) = 3 /\ result.last_known_rank = 1
    /\ result.lineage[3] = <<"unresolved.", "G">>

\* C3: method 'rank': records are grouped by the single label at
\* ranks[i-1], and the result is resolved at the deepest rank at which
\* exactly one label has at least threshold percent of the BIN's total
\* weight; that label is the result's label at that rank.
C3_RankDeepestQuorum ==
    (Done /\ NonEmptyInput /\ call.method = "rank"
          /\ ~call.exclude_missing_data)
        => ResolvedAtDeepest(ExactShare)

\* C3, with the share of a label taken as the code computes the column
\* 'percent'.
C3_RankDeepestQuorumAsComputed ==
    (Done /\ NonEmptyInput /\ call.method = "rank")
        => ResolvedAtDeepest(Qualifies)

\* The rows that carry the winning label at the resolved rank.
RowsAtRank ==
    {j \in 1..Len(df) :
        df[j][ranks[result.last_known_rank]]
            = result.lineage[result.last_known_rank]}

\* The labels of row j above the resolved rank.
Ancestors(j) == GroupKey(df[j], SubSeq(ranks, 1, result.last_known_rank - 1))

\* The summed weight of the rows at the resolved rank with ancestors a.
AncestorWeight(a) == SumN(df, {j \in RowsAtRank : Ancestors(j) = a})

\* The ancestor combinations that come first by fewest placeholder labels,
\* then by highest summed weight.
BestAncestorsBySum ==
    LET all == {Ancestors(j) : j \in RowsAtRank}
    IN  {a \in all : \A b \in all :
            \/ calc_unassigned(a) < calc_unassigned(b)
            \/ /\ calc_unassigned(a) = calc_unassigned(b)
               /\ AncestorWeight(a) >= AncestorWeight(b)}

ResultAncestors == SubSeq(result.lineage, 1, result.last_known_rank - 1)

\* The records with the winning label that no other such record precedes
\* by fewer placeholder labels or, with as many, by a larger weight n.
BestRecords ==
    {j \in RowsAtRank : \A k \in RowsAtRank :
        /\ calc_unassigned(Ancestors(j)) <= calc_unassigned(Ancestors(k))
        /\ calc_unassigned(Ancestors(j)) = calc_unassigned(Ancestors(k))
               => df[j].n >= df[k].n}

\* C4 as stated: method 'rank', records with the winning label disagree on
\* ancestors: the resolved ancestors are the combination with the fewest
\* placeholder labels and, among those, the highest weight summed over all
\* records sharing the combination.  (Stated for the groups in which the
\* first record by placeholder count and weight is determined.)
C4_AncestorsBySummedWeight ==
    (Ok /\ call.method = "rank"
        /\ Cardinality({Ancestors(j) : j \in RowsAtRank}) > 1
        /\ Cardinality({Ancestors(j) : j \in BestRecords}) = 1)
        => ResultAncestors \in BestAncestorsBySum

\* C4 as amended: the resolved ancestors are those of one record carrying
\* the winning label: no such record has fewer placeholder labels, and none
\* with as few has a larger weight n of its own.
C4_AncestorsOfBestRecord ==
    (Ok /\ call.method = "rank"
        /\ Cardinality({Ancestors(j) : j \in RowsAtRank}) > 1)
        => \E j \in BestRecords : Ancestors(j) = ResultAncestors

\* C4 witness: the ancestors taken are those of the heaviest single record,
\* and another combination has the higher summed weight.
C4_Witness ==
    /\ Ok /\ call.method = "rank"
    /\ Cardinality({Ancestors(j) : j \in RowsAtRank}) > 1
    /\ Cardinality({Ancestors(j) : j \in BestRecords}) = 1
    /\ ResultAncestors \notin BestAncestorsBySum

\* The frames with the rows of frame in another order.
Reordered(frame) ==
    {[j \in 1..Len(frame) |-> frame[p[j]]] : p \in Permutations(1..Len(frame))}

\* C5: every permutation of the input records yields the identical
\* consensus lineage, for any threshold and either method.
C5_OrderIndependent ==
    Done =>
        \A frame \in Reordered(df) :
            calculate_consensus(frame, ranks, call.threshold, call.method,
                                call.exclude_missing_data) = {result}

\* C6: for a non-empty BIN group and a non-empty rank list the call returns
\* one consensus lineage and never fails.
C6_NeverFails ==
    (Done /\ NonEmptyInput) =>
        /\ result.status = "ok"
        /\ Len(result.lineage) = Len(ranks)

\* The results of the same call at threshold t.
ResultsAt(t) ==
    calculate_consensus(df, ranks, t, call.method, call.exclude_missing_data)

\* C7 as stated: for thresholds t1 <= t2 the resolved depth at t2 is at most
\* the resolved depth at t1.
C7_ThresholdMonotone ==
    Ok =>
        \A t2 \in Thresholds : \A r2 \in ResultsAt(t2) :
            (call.threshold <= t2 /\ r2.status = "ok")
                => r2.last_known_rank <= result.last_known_rank

\* C7 as amended: for thresholds 50 < t1 <= t2, a call that returns a result
\* at t2 returns one at t1 too, resolved at least as deep.
C7_ThresholdMonotoneAboveHalf ==
    (Done /\ call.threshold > 50) =>
        \A t2 \in Thresholds : \A r2 \in ResultsAt(t2) :
            (call.threshold <= t2 /\ r2.status = "ok")
                => /\ result.status = "ok"
                   /\ r2.last_known_rank <= result.last_known_rank

\* C7 witness: a result at a threshold above 50 that a higher threshold
\* resolves at a strictly shallower rank.
C7_Witness ==
    /\ Ok /\ call.threshold > 50
    /\ \E t2 \in Thresholds : \E r2 \in ResultsAt(t2) :
          /\ call.threshold < t2 /\ r2.status = "ok"
          /\ r2.last_known_rank < result.last_known_rank

\* C8: the quorum test is inclusive: at every depth a group whose share
\* equals the threshold exactly qualifies, and a group whose share is
\* strictly below the threshold does not.
C8_InclusiveQuorum ==
    (Done /\ NonEmptyInput /\ ~call.exclude_missing_data) =>
        \A i \in 1..Len(ranks) :
            LET group_by == GroupBy(ranks, call.method, i)
                total == SumN(df, 1..Len(df))
                _df == cons(df, group_by, call.threshold, FALSE)
            IN  \A g \in Grouped(df, group_by) :
                    /\ g.n * 100 = call.threshold * total => g \in _df
                    /\ g.n * 100 < call.threshold * total => g \notin _df

\* C9: with exclude_missing_data, groups with a placeholder label in a
\* grouping column take no part in the vote: at every depth the qualifying
\* groups have no placeholder label and reach the threshold as a share of
\* the remaining weight, and the label that wins the quorum of a result is
\* not a placeholder.
C9_MissingDataExcluded ==
    (Done /\ NonEmptyInput /\ call.exclude_missing_data) =>
        /\ \A i \in 1..Len(ranks) :
              LET group_by == GroupBy(ranks, call.method, i)
                  remaining == {g \in Grouped(df, group_by) :
                                  \A k \in 1..Len(g.key) :
                                      ~IsPlaceholder(g.key[k])}
              IN  \A g \in cons(df, group_by, call.threshold, TRUE) :
                      /\ g \in remaining
                      /\ g.n * 100 >= call.threshold * SumGroups(remaining)
        /\ result.status = "ok" =>
              ~IsPlaceholder(result.lineage[result.last_known_rank])

\* C9 witness: a label wins with a share of the remaining weight that is
\* below the threshold as a share of the BIN's whole weight.
C9_Witness ==
    /\ Ok /\ call.exclude_missing_data
    /\ \E g \in cons(df, GroupBy(ranks, call.method, result.last_known_rank),
                     call.threshold, TRUE) :
          g.n * 100 < call.threshold * SumN(df, 1..Len(df))

----------------------------------------------------------------------------
(* Repair of non-unique lineages (fix_non_unique_lineages.py).  The table  *)
(* is a sequence of records: processid, bin_uri and one label per rank.    *)

\* Largest number of records in a table under repair.
MaxRows == 3

\* The number of times the repair is run on a table, each run on the table
\* the run before returned.
MaxPasses == 2

BinUris == <<"B1", "B2", "B3">>

\* Lineages of the records under repair: one species under two families of
\* one genus name, under a placeholder genus, under a genus whose name is
\* what prefixing produces, and a second species.
RepairLineages ==
    << Lineage(<<"G">>, <<"A">>, <<"h">>),
       Lineage(<<"N">>, <<"A">>, <<"h">>),
       Lineage(<<"G">>, <<"G", "_", "X">>, <<"h">>),
       Lineage(<<"N">>, <<"G", "_", "A">>, <<"h">>),
       Lineage(<<"G">>, <<"A">>, <<"l">>) >>

Record(id, b, l) ==
    [processid |-> id, bin_uri |-> b, family |-> l.family,
     genus |-> l.genus, species |-> l.species]

\* The tables of at most MaxRows records, one record order per multiset
\* of (lineage, BIN) pairs; processid numbers the records.
Tables ==
    UNION { { [j \in 1..k |-> Record(j, BinUris[b[j]], RepairLineages[ix[j]])] :
                <<ix, b>> \in
                    { p \in [1..k -> 1..Len(RepairLineages)]
                              \X [1..k -> 1..Len(BinUris)] :
                        \A j \in 1..(k - 1) :
                            \/ p[1][j] < p[1][j + 1]
                            \/ p[1][j] = p[1][j + 1] /\ p[2][j] <= p[2][j + 1] } } :
            k \in 0..MaxRows }

\* The rows of a table, as a set.
Rows(table) == {table[j] : j \in 1..Len(table)}

\* pl.concat_str(columns, separator=sep) of one row.
RECURSIVE concat_str(_, _, _)
concat_str(row, columns, sep) ==
    IF Len(columns) = 0 THEN <<>>
    ELSE IF Len(columns) = 1 THEN row[columns[1]]
    ELSE row[columns[1]] \o <<sep>> \o concat_str(row, Tail(columns), sep)

\* The 'lineage' strings of the rows with label t in column rank:
\* q.group_by(rank).n_unique() counts them.
LineagesOf(table, rks, i, t) ==
    {concat_str(row, SubSeq(rks, 1, i), ";") :
        row \in {r \in Rows(table) : r[rks[i]] = t}}

\* A faulty variant of find_non_unique: the last rank is not looked at.
find_non_unique_middle(table, rks) ==
    [rank \in {rks[i] : i \in 1..Len(rks)} |->
        LET i == CHOOSE k \in 1..Len(rks) : rks[k] = rank
        IN  IF i = Len(rks) THEN {}
            ELSE {t \in {r[rank] : r \in Rows(table)} :
                    Cardinality(LineagesOf(table, rks, i, t)) > 1}]

\* find_non_unique(df, ranks): for each rank the labels with more than one
\* distinct 'lineage' string over ranks[0:i].
find_non_unique(table, rks) ==
    [rank \in {rks[i] : i \in 1..Len(rks)} |->
        LET i == CHOOSE k \in 1..Len(rks) : rks[k] = rank
        IN  {t \in {r[rank] : r \in Rows(table)} :
                Cardinality(LineagesOf(table, rks, i, t)) > 1}]

\* regex = re.compile(".+(_[X]+)$"); regex.match(x)
RegexMatch(label) ==
    \E i \in 2..(Len(label) - 1) :
        /\ label[i] = "_"
        /\ \A j \in (i + 1)..Len(label) : label[j] = "X"

\* check_parent_ranks(_df, group_ranks, regex): the BINs of the rows whose
\* labels in group_ranks, the first left out (row[2:]), all match.
check_parent_ranks(_df, group_ranks) ==
    {row.bin_uri : row \in
        {r \in _df :
            Cardinality({k \in 2..Len(group_ranks) :
                            RegexMatch(r[group_ranks[k]])})
                = Len(group_ranks) - 1}}

\* ranks.index(rank)
IndexOf(rks, rank) == (CHOOSE k \in 1..Len(rks) : rks[k] = rank) - 1

\* pl.concat_str([parent_rank, rank], separator="_") where the label is t.
Prefixed(table, parent_rank, rank, t) ==
    [j \in 1..Len(table) |->
        IF table[j][rank] = t
        THEN [table[j] EXCEPT
                ![rank] = concat_str(table[j], <<parent_rank, rank>>, "_")]
        ELSE table[j]]

\* A faulty variant of FixTaxon: the BINs found for a label are dropped from
\* df at once.
FixTaxonImmediate(st, rks, rank, t) ==
    LET index == IndexOf(rks, rank)
        group_ranks == SubSeq(rks, 1, index)
        parent_rank == rks[IF index = 0 THEN Len(rks) ELSE index]
        _df == {r \in Rows(st.df) : r[rank] = t}
        _bins_to_remove == check_parent_ranks(_df, group_ranks)
        kept == {r \in _df : r.bin_uri \notin _bins_to_remove}
    IN  IF Cardinality({GroupKey(r, group_ranks) : r \in kept}) = 1
        THEN [st EXCEPT !.bins_to_remove = @ \cup _bins_to_remove,
                        !.df = SelectSeq(@, LAMBDA r :
                                            r.bin_uri \notin _bins_to_remove)]
        ELSE [st EXCEPT !.df = Prefixed(st.df, parent_rank, rank, t)]

\* The body of 'for t in taxa' on st = [df, bins_to_remove]: either the
\* BINs of check_parent_ranks are added to bins_to_remove, or the label t
\* is prefixed in df.  ranks[index - 1] of the first rank is the last rank.
FixTaxon(st, rks, rank, t) ==
    LET index == IndexOf(rks, rank)
        group_ranks == SubSeq(rks, 1, index)
        parent_rank == rks[IF index = 0 THEN Len(rks) ELSE index]
        _df == {r \in Rows(st.df) : r[rank] = t}
        _bins_to_remove == check_parent_ranks(_df, group_ranks)
        kept == {r \in _df : r.bin_uri \notin _bins_to_remove}
    IN  IF Cardinality({GroupKey(r, group_ranks) : r \in kept}) = 1
        THEN [st EXCEPT !.bins_to_remove = @ \cup _bins_to_remove]
        ELSE [st EXCEPT !.df = Prefixed(st.df, parent_rank, rank, t)]

\* 'for t in taxa': the list non_unique[rank] comes from a group_by, which
\* leaves its order open, so every order is taken.
RECURSIVE FixTaxa(_, _, _, _)
FixTaxa(st, rks, rank, taxa) ==
    IF taxa = {} THEN {st}
    ELSE UNION {FixTaxa(FixTaxon(st, rks, rank, t), rks, rank, taxa \ {t}) :
                    t \in taxa}

\* 'for rank in ranks' from the i-th rank on; a rank that is no key of
\* conflicts is skipped (KeyError).
RECURSIVE FixRanks(_, _, _, _)
FixRanks(sts, conflicts, rks, i) ==
    IF i > Len(rks) THEN sts
    ELSE LET taxa == IF rks[i] \in DOMAIN conflicts THEN conflicts[rks[i]]
                     ELSE {}
         IN  FixRanks(UNION {FixTaxa(st, rks, rks[i], taxa) : st \in sts},
                      conflicts, rks, i + 1)

\* df.filter(~pl.col("bin_uri").is_in(bins_to_remove))
DropBins(table, bins) == SelectSeq(table, LAMBDA r : r.bin_uri \notin bins)

\* fix_non_unique_lineages(df, non_unique, ranks): the tables the call can
\* return.
fix_non_unique_lineages(table, conflicts, rks) ==
    {DropBins(st.df, st.bins_to_remove) :
        st \in FixRanks({[df |-> table, bins_to_remove |-> {}]},
                        conflicts, rks, 1)}

----------------------------------------------------------------------------
(* The repair as a state machine: find_non_unique, then                    *)
(* fix_non_unique_lineages with what it found; a further pass runs both on *)
(* the table the pass before returned.                                     *)

InitRepair ==
    /\ df \in Tables
    /\ ranks \in RankLists
    /\ call = NoCall
    /\ pc = "start"
    /\ result = <<>>
    /\ non_unique = <<>>
    /\ pass = 1
    /\ existing = <<>>
    /\ dataframes = <<>>
    /\ consensus_list = <<>>
    /\ ScriptIdle

FindNonUnique ==
    /\ pc = "start"
    /\ non_unique' = find_non_unique(df, ranks)
    /\ pc' = "found"
    /\ UNCHANGED <<df, ranks, call, result, pass, existing, dataframes,
                   consensus_list>>
    /\ UNCHANGED scriptVars

FixNonUniqueLineages ==
    /\ pc = "found"
    /\ result' \in fix_non_unique_lineages(df, non_unique, ranks)
    /\ pc' = "fixed"
    /\ UNCHANGED <<df, ranks, call, non_unique, pass, existing, dataframes,
                   consensus_list>>
    /\ UNCHANGED scriptVars

\* The returned table is the input of the next pass.
NextPass ==
    /\ pc = "fixed"
    /\ pass < MaxPasses
    /\ df' = result
    /\ result' = <<>>
    /\ non_unique' = <<>>
    /\ pass' = pass + 1
    /\ pc' = "start"
    /\ UNCHANGED <<ranks, call, existing, dataframes, consensus_list>>
    /\ UNCHANGED scriptVars

NextRepair == FindNonUnique \/ FixNonUniqueLineages \/ NextPass

SpecRepair == InitRepair /\ [][NextRepair]_vars

----------------------------------------------------------------------------
(* Properties of the repair.                                               *)

\* The position of the i-th rank of the call: ranks[i].
RankAt(i) == ranks[i]

\* The records of table with label l at the i-th rank.
Carrying(table, i, l) == {r \in Rows(table) : r[RankAt(i)] = l}

\* The labels of r at the ranks above the i-th: ranks[0:index(r)].
AncestorPath(r, i) == GroupKey(r, SubSeq(ranks, 1, i - 1))

\* The distinct ancestor paths of the records with label l at the i-th rank.
AncestorPaths(table, i, l) == {AncestorPath(r, i) : r \in Carrying(table, i, l)}

\* Every label of table, at any rank.
LabelsIn(table) ==
    UNION {{r[AllRanks[k]] : k \in 1..Len(AllRanks)} : r \in Rows(table)}

\* No label is reported at any rank.
ConflictFree(conflicts) == \A rank \in DOMAIN conflicts : conflicts[rank] = {}

\* C11: find_non_unique reports a label l under a rank r exactly when the
\* records with l at r have more than one distinct ancestor lineage over
\* the ranks above r; nothing is reported under the first rank.
C11_SoundAndComplete ==
    pc = "found" =>
        /\ DOMAIN non_unique = {RankAt(i) : i \in 1..Len(ranks)}
        /\ \A i \in 1..Len(ranks) :
              /\ non_unique[RankAt(i)] \subseteq LabelsIn(df)
              /\ \A l \in LabelsIn(df) :
                    l \in non_unique[RankAt(i)]
                        <=> Cardinality(AncestorPaths(df, i, l)) > 1
        /\ Len(ranks) > 0 => non_unique[RankAt(1)] = {}

\* A label is reported at the last of three ranks and another, carried by a
\* record of the table at that rank, is not.
C11_Witness ==
    /\ pc = "found" /\ pass = 1 /\ Len(ranks) = 3
    /\ non_unique[RankAt(3)] # {}
    /\ \E r \in Rows(df) : r[RankAt(3)] \notin non_unique[RankAt(3)]
    /\ non_unique[RankAt(2)] # {}

\* C12: the table one pass of fix_non_unique_lineages returns, called with
\* the conflicts find_non_unique found, has no conflicts left.
C12_NoConflictsAfterRepair ==
    pc = "fixed" => ConflictFree(find_non_unique(result, ranks))

\* C13: fix_non_unique_lineages returns the table unchanged when
\* find_non_unique reported no conflict for it, and when the table is one
\* that a pass of the repair returned.
C13_RepairIdempotent ==
    (pc = "fixed" /\ (ConflictFree(non_unique) \/ pass > 1)) => result = df

\* The ancestor path of r above the i-th rank is placeholder-derived: every
\* label of it below the root is a placeholder.
PlaceholderAncestored(r, i) == \A k \in 2..(i - 1) : IsPlaceholder(r[RankAt(k)])

\* The records with label l at the i-th rank whose ancestor path is
\* placeholder-derived, and the others.
Placeheld(table, i, l) ==
    {r \in Carrying(table, i, l) : PlaceholderAncestored(r, i)}

Resolved(table, i, l) == Carrying(table, i, l) \ Placeheld(table, i, l)

\* Removing the placeholder-ancestored records of label l at the i-th rank
\* leaves exactly one distinct ancestor path.
RemovalSuffices(table, i, l) ==
    Cardinality({AncestorPath(r, i) : r \in Resolved(table, i, l)}) = 1

\* The record of the returned table with the processid of r, if any.
Returned(r) == {q \in Rows(result) : q.processid = r.processid}

\* C14: for a conflicting label at a rank, when removing the records with a
\* placeholder-derived ancestor path leaves one distinct ancestor path, the
\* returned table excludes those records and retains the others with the
\* label as it was.
C14_RemovalBranch ==
    pc = "fixed" =>
        \A i \in 2..Len(ranks) : \A l \in non_unique[RankAt(i)] :
            RemovalSuffices(df, i, l) =>
                /\ \A r \in Placeheld(df, i, l) : Returned(r) = {}
                /\ \A r \in Resolved(df, i, l) :
                      \E q \in Returned(r) : q[RankAt(i)] = l

\* C15: for a conflicting label at a rank, when removing the records with a
\* placeholder-derived ancestor path does not leave one ancestor path, every
\* record with the label carries, in the returned table, the label of its
\* parent rank, '_' and the label; records of different ancestor paths carry
\* different names.
C15_PrefixBranch ==
    pc = "fixed" =>
        \A i \in 2..Len(ranks) : \A l \in non_unique[RankAt(i)] :
            ~RemovalSuffices(df, i, l) =>
                /\ \A r \in Carrying(df, i, l) : \A q \in Returned(r) :
                      q[RankAt(i)] = q[RankAt(i - 1)] \o <<"_">> \o l
                /\ \A r1, r2 \in Carrying(df, i, l) :
                      AncestorPath(r1, i) # AncestorPath(r2, i) =>
                          \A q1 \in Returned(r1), q2 \in Returned(r2) :
                              q1[RankAt(i)] # q2[RankAt(i)]

----------------------------------------------------------------------------
(* Filling of missing ranks (workflow/scripts/fill_missing.py).  A row has *)
(* one label per rank column; a null cell is the empty label.              *)

\* The rank columns main names, parent to child.
FillRanks ==
    <<"kingdom", "phylum", "class", "order", "family", "genus", "species">>

\* A null cell: the reader turns 'None' into null.
Null == <<>>

is_null(label) == label = Null

\* The labels a cell of the input can hold besides null: a name of its own
\* for each rank, and under class also a placeholder of an earlier filling.
InputLabels ==
    [kingdom |-> {<<"K">>}, phylum |-> {<<"P">>},
     class |-> {<<"C">>, <<"P", "_", "X">>}, order |-> {<<"O">>},
     family |-> {<<"F">>}, genus |-> {<<"G">>}, species |-> {<<"s">>}]

\* The rows of the input table.
FillRows ==
    {row \in [DOMAIN InputLabels -> {Null} \cup UNION {InputLabels[c] : c \in DOMAIN InputLabels}] :
        \A c \in DOMAIN InputLabels : row[c] \in {Null} \cup InputLabels[c]}

\* if kingdom is null, set to "unassigned"
FillKingdom(row) ==
    [row EXCEPT !.kingdom = IF is_null(@) THEN <<"unassigned">> ELSE @]

\* if phylum is null, set to kingdom + "_X"
FillPhylum(row) ==
    [row EXCEPT !.phylum = IF is_null(@) THEN row.kingdom \o <<"_", "X">>
                           ELSE @]

\* A faulty variant of FillStart: the label before is not looked at.
FillStartAlways(row, rank, prev) ==
    [row EXCEPT ![rank] = IF is_null(@) THEN row[prev] \o <<"_", "X">>
                          ELSE @]

\* if rank is null and prev does not end in "_X", set to prev + "_X"
FillStart(row, rank, prev) ==
    [row EXCEPT ![rank] = IF is_null(@) /\ ~IsPlaceholder(row[prev])
                          THEN row[prev] \o <<"_", "X">>
                          ELSE @]

\* A faulty variant of FillExtend: two X are appended.
FillExtendTwice(row, rank, prev) ==
    [row EXCEPT ![rank] = IF is_null(@) /\ IsPlaceholder(row[prev])
                          THEN row[prev] \o <<"X", "X">>
                          ELSE @]

\* if rank is null and prev ends in "_X", set to prev + "X"
FillExtend(row, rank, prev) ==
    [row EXCEPT ![rank] = IF is_null(@) /\ IsPlaceholder(row[prev])
                          THEN row[prev] \o <<"X">>
                          ELSE @]

\* The with_columns steps for class down to species, from the i-th rank on.
RECURSIVE FillFrom(_, _)
FillFrom(row, i) ==
    IF i > Len(FillRanks) THEN row
    ELSE FillFrom(FillExtend(FillStart(row, FillRanks[i], FillRanks[i - 1]),
                             FillRanks[i], FillRanks[i - 1]),
                  i + 1)

\* The chain of with_columns of main, on one row.
fill_missing(row) == FillFrom(FillPhylum(FillKingdom(row)), 3)

InitFill ==
    /\ df \in {<<row>> : row \in FillRows}
    /\ ranks = FillRanks
    /\ call = NoCall
    /\ pc = "start"
    /\ result = <<>>
    /\ non_unique = <<>>
    /\ pass = 0
    /\ existing = <<>>
    /\ dataframes = <<>>
    /\ consensus_list = <<>>
    /\ ScriptIdle

\* main(infile, outfile): the filled table is written.
FillMissing ==
    /\ pc = "start"
    /\ result' = [j \in 1..Len(df) |-> fill_missing(df[j])]
    /\ pc' = "done"
    /\ UNCHANGED <<df, ranks, call>>
    /\ UNCHANGED tableVars
    /\ UNCHANGED scriptVars

NextFill == FillMissing

SpecFill == InitFill /\ [][NextFill]_vars

----------------------------------------------------------------------------
(* Properties of the filling.                                              *)

\* The label of row at the i-th rank column.
LabelAt(row, i) == row[FillRanks[i]]

\* k letters X.
Xs(k) == [m \in 1..k |-> "X"]

\* The ranks i+1 .. k are all null in row.
NullRun(row, i, k) == \A m \in (i + 1)..k : is_null(LabelAt(row, m))

\* C16: in the filled row every rank that was null holds the label of the
\* rank before it with '_X' appended when that label does not end in _X+ and
\* with 'X' appended when it does; k nulls below a known label L hold L_X,
\* L_XX, ... up to k letters X, a chain starts anew after a label that was
\* not null, and the labels that were not null are unchanged.
C16_FillerRule ==
    pc = "done" =>
        \A j \in 1..Len(df) :
            /\ Len(result) = Len(df)
            /\ \A i \in 2..Len(FillRanks) :
                  is_null(LabelAt(df[j], i)) =>
                      LabelAt(result[j], i) =
                          LabelAt(result[j], i - 1)
                              \o (IF IsPlaceholder(LabelAt(result[j], i - 1))
                                  THEN <<"X">> ELSE <<"_", "X">>)
            /\ \A i \in 1..Len(FillRanks) :
                  ~is_null(LabelAt(df[j], i)) =>
                      /\ LabelAt(result[j], i) = LabelAt(df[j], i)
                      /\ ~IsPlaceholder(LabelAt(df[j], i)) =>
                            \A k \in (i + 1)..Len(FillRanks) :
                                NullRun(df[j], i, k) =>
                                    LabelAt(result[j], k) =
                                        LabelAt(df[j], i) \o <<"_">> \o Xs(k - i)

\* A row with three nulls below a known label, and a null further down below
\* another known label, has been filled.
C16_Witness ==
    /\ pc = "done"
    /\ \E i \in 1..(Len(FillRanks) - 5) :
          /\ ~is_null(LabelAt(df[1], i)) /\ ~IsPlaceholder(LabelAt(df[1], i))
          /\ NullRun(df[1], i, i + 3)
          /\ ~is_null(LabelAt(df[1], i + 4))
          /\ is_null(LabelAt(df[1], i + 5))
          /\ LabelAt(result[1], i + 3) = LabelAt(df[1], i) \o <<"_">> \o Xs(3)

\* C17: filling a row whose first rank is null fails: the run does not
\* finish and no filled table is written.
C17_NullRootFails ==
    (\E j \in 1..Len(df) : is_null(LabelAt(df[j], 1))) =>
        pc # "done" /\ result = <<>>

\* The position of the '_' that starts the placeholder suffix _X+ of label.
SuffixAt(label) ==
    CHOOSE i \in 1..(Len(label) - 1) :
        /\ label[i] = "_"
        /\ \A j \in (i + 1)..Len(label) : label[j] = "X"

\* The ancestor label a placeholder is derived from, and its number of X.
ChainBase(label) == SubSeq(label, 1, SuffixAt(label) - 1)

ChainLength(label) == Len(label) - SuffixAt(label)

\* deep is a placeholder that extends the chain of the placeholder shallow.
ExtendsChain(shallow, deep) ==
    /\ IsPlaceholder(deep)
    /\ ChainBase(deep) = ChainBase(shallow)
    /\ ChainLength(deep) > ChainLength(shallow)

\* C18 as stated: in the filled row, below a rank beyond the first whose
\* label is a placeholder, every deeper label is a placeholder that extends
\* its chain.
C18_ChainToTheLeaf ==
    pc = "done" =>
        \A j \in 1..Len(result) : \A i \in 2..Len(FillRanks) :
            IsPlaceholder(LabelAt(result[j], i)) =>
                \A k \in (i + 1)..Len(FillRanks) :
                    ExtendsChain(LabelAt(result[j], i), LabelAt(result[j], k))

\* C18 amended: in the filled row, below a rank beyond the first whose label
\* is a placeholder, every deeper label down to the next rank that was not
\* null in the input is a placeholder that extends its chain.
C18_ChainToNextKnown ==
    pc = "done" =>
        \A j \in 1..Len(result) : \A i \in 2..Len(FillRanks) :
            IsPlaceholder(LabelAt(result[j], i)) =>
                \A k \in (i + 1)..Len(FillRanks) :
                    NullRun(df[j], i, k) =>
                        ExtendsChain(LabelAt(result[j], i), LabelAt(result[j], k))

\* A filled row with a chain of three placeholders that ends at a label
\* which was not null, itself followed by a new chain.
C18_Witness ==
    /\ pc = "done"
    /\ \E i \in 2..(Len(FillRanks) - 4) :
          /\ is_null(LabelAt(df[1], i))
          /\ NullRun(df[1], i, i + 2)
          /\ ExtendsChain(LabelAt(result[1], i), LabelAt(result[1], i + 2))
          /\ ~is_null(LabelAt(df[1], i + 3))
          /\ ~IsPlaceholder(LabelAt(result[1], i + 3))
          /\ IsPlaceholder(LabelAt(result[1], i + 4))

----------------------------------------------------------------------------
(* The orchestrator: load_taxonomy and main of consensus_taxonomy.py.  The *)
(* input file is a sequence of records (bin_uri and one label per rank),   *)
(* the baseline (--use_existing) and the written table are sequences of    *)
(* rows [bin_uri, lineage], lineage holding the labels in the columns      *)
(* ranks.                                                                  *)

\* Largest number of records in the input file.
MaxInput == 5

\* The BINs of the input records, in ascending order of bin_uri.
InputBins == <<"B1", "B2", "B3">>

\* The BINs a baseline can hold: those of the input and one more.
BaselineBins == <<"B1", "B2", "B3", "B9">>

\* Lineages of the input records: one genus under two families.
InputLineages == <<Lineages[1], Lineages[3]>>

InputRecord(b, l) ==
    [bin_uri |-> b, family |-> l.family, genus |-> l.genus,
     species |-> l.species]

\* The input files of at most MaxInput records, one record order per
\* multiset of records.
Infiles ==
    UNION { { [j \in 1..k |-> InputRecord(InputBins[b[j]], InputLineages[ix[j]])] :
                <<b, ix>> \in
                    { p \in [1..k -> 1..Len(InputBins)]
                              \X [1..k -> 1..Len(InputLineages)] :
                        \A j \in 1..(k - 1) :
                            \/ p[1][j] < p[1][j + 1]
                            \/ p[1][j] = p[1][j + 1] /\ p[2][j] <= p[2][j + 1] } } :
            k \in 0..MaxInput }

\* The lineage of a baseline row: a consensus of an earlier run, resolved
\* at the first rank only.
BaselineLineage(rks) ==
    [i \in 1..Len(rks) |-> IF i = 1 THEN <<"O">> ELSE UnresolvedLabel(<<"O">>)]

\* The baselines: one row for each BIN of a subset of BaselineBins.
Baselines(rks) ==
    {SelectSeq([k \in 1..Len(BaselineBins) |->
                    [bin_uri |-> BaselineBins[k], lineage |-> BaselineLineage(rks)]],
               LAMBDA row : row.bin_uri \in bins) :
        bins \in SUBSET {BaselineBins[k] : k \in 1..Len(BaselineBins)}}

\* group_by(rank columns + bin_uri).len("n"): one row per distinct record.
bin_taxonomy(infile) ==
    {[bin_uri |-> r.bin_uri, family |-> r.family, genus |-> r.genus,
      species |-> r.species,
      n |-> Cardinality({j \in 1..Len(infile) : infile[j] = r})] :
        r \in Rows(infile)}

\* bin_taxonomy.group_by("bin_uri").len("bin_rows"), for one BIN.
bin_rows(taxonomy, b) == Cardinality({g \in taxonomy : g.bin_uri = b})

\* The rows of the BINs with more than one unique lineage.
bin_taxonomy_ambig(taxonomy) ==
    {g \in taxonomy : bin_rows(taxonomy, g.bin_uri) > 1}

\* The rows of the BINs with one lineage.
bin_taxonomy_unambig(taxonomy) ==
    {g \in taxonomy : bin_rows(taxonomy, g.bin_uri) < 2}

\* The bin_uri values of a set of rows, in the order of the sort of
\* load_taxonomy: descending.
BinsDescending(rows) ==
    SelectSeq([k \in 1..Len(InputBins) |-> InputBins[Len(InputBins) + 1 - k]],
              LAMBDA b : \E g \in rows : g.bin_uri = b)

\* The rows of one BIN as a frame, sorted by n, descending.
RECURSIVE FrameOf(_)
FrameOf(rows) ==
    IF rows = {} THEN <<>>
    ELSE LET g == CHOOSE x \in rows : \A y \in rows : x.n >= y.n
         IN  <<g>> \o FrameOf(rows \ {g})

\* bin_taxonomy_ambig.partition_by("bin_uri"): one frame per BIN.
partition_by(rows) ==
    LET bins == BinsDescending(rows)
    IN  [k \in 1..Len(bins) |-> FrameOf({g \in rows : g.bin_uri = bins[k]})]

\* A faulty variant of MatchExisting: the baseline is taken whole.
MatchExistingAll(baseline, taxonomy) == baseline

\* existing.filter(pl.col("bin_uri").is_in(bin_taxonomy bin_uri values))
MatchExisting(baseline, taxonomy) ==
    SelectSeq(baseline, LAMBDA row : \E g \in taxonomy : g.bin_uri = row.bin_uri)

\* A faulty variant of NotInExisting: the BINs of the baseline stay among
\* the rows to compute.
NotInExistingNone(rows, matched) == rows

\* bin_taxonomy_ambig.filter(~pl.col("bin_uri").is_in(existing bin_uri values))
NotInExisting(rows, matched) ==
    {g \in rows : \A k \in 1..Len(matched) : matched[k].bin_uri # g.bin_uri}

\* bin_taxonomy_unambig.select(["bin_uri"] + args.ranks), as rows of the
\* written table.
SelectRanks(rows, rks) ==
    LET bins == BinsDescending(rows)
    IN  [k \in 1..Len(bins) |->
            LET g == CHOOSE x \in rows : x.bin_uri = bins[k]
            IN  [bin_uri |-> g.bin_uri, lineage |-> GroupKey(g, rks)]]

\* A faulty variant of DropComputed: no row of the baseline is dropped.
DropComputedNone(matched, consensus_df) == matched

\* existing.filter(~pl.col("bin_uri").is_in(consensus_df bin_uri values))
DropComputed(matched, consensus_df) ==
    SelectSeq(matched, LAMBDA row :
        \A k \in 1..Len(consensus_df) : consensus_df[k].bin_uri # row.bin_uri)

\* -p cpus
Cpus == {1, 2}

\* The arguments of main: the consensus options, the baseline file of
\* --use_existing (if given) and the number of cpus.
Args ==
    [threshold : Thresholds, method : Methods, exclude_missing_data : BOOLEAN,
     use_existing : BOOLEAN, cpus : Cpus]

\* consensus_list with the result of the k-th frame set.
WithResult(list, k, r) ==
    [j \in DOMAIN list \cup {k} |-> IF j = k THEN r ELSE list[j]]

\* The rows of the written table for the results of p.map, in the order of
\* dataframes.
ConsensusRows(list) ==
    [k \in DOMAIN list |->
        [bin_uri |-> list[k].bin_uri, lineage |-> list[k].lineage]]

\* pl.concat(consensus_list + [bin_taxonomy_unambig.select(...)])
consensus_df(list, infile, rks) ==
    ConsensusRows(list)
        \o SelectRanks(bin_taxonomy_unambig(bin_taxonomy(infile)), rks)

InitMain ==
    /\ df \in Infiles
    /\ ranks = AllRanks
    /\ \E args \in Args, baseline \in Baselines(ranks) :
          call = [threshold |-> args.threshold, method |-> args.method,
                  exclude_missing_data |-> args.exclude_missing_data,
                  use_existing |-> args.use_existing,
                  baseline |-> IF args.use_existing THEN baseline ELSE <<>>,
                  cpus |-> args.cpus]
    /\ pc = "start"
    /\ result = <<>>
    /\ non_unique = <<>>
    /\ pass = 0
    /\ existing = <<>>
    /\ dataframes = <<>>
    /\ consensus_list = <<>>
    /\ ScriptIdle

\* load_taxonomy, the match with the baseline and partition_by: the state
\* Loaded.
LoadTaxonomy ==
    /\ pc = "start"
    /\ LET taxonomy == bin_taxonomy(df)
           matched == IF call.use_existing
                      THEN MatchExisting(call.baseline, taxonomy)
                      ELSE <<>>
           ambig == IF call.use_existing
                    THEN NotInExisting(bin_taxonomy_ambig(taxonomy), matched)
                    ELSE bin_taxonomy_ambig(taxonomy)
       IN  /\ existing' = matched
           /\ dataframes' = partition_by(ambig)
    /\ consensus_list' = <<>>
    /\ pc' = "loaded"
    /\ UNCHANGED <<df, ranks, call, result, non_unique, pass>>
    /\ UNCHANGED scriptVars

\* cpus = min(len(dataframes), args.cpus); Pool(cpus) raises ValueError
\* when cpus is below 1.
StartPool ==
    /\ pc = "loaded"
    /\ LET cpus == IF Len(dataframes) < call.cpus THEN Len(dataframes)
                   ELSE call.cpus
       IN  pc' = IF cpus < 1 THEN "aborted" ELSE "mapping"
    /\ UNCHANGED <<df, ranks, call, result, non_unique, pass, existing,
                   dataframes, consensus_list>>
    /\ UNCHANGED scriptVars

\* A faulty variant of Worker: the workers share the frame they work on,
\* and the result stored for the k-th frame is the consensus of any frame.
WorkerShared(k) ==
    /\ pc = "mapping"
    /\ k \in (1..Len(dataframes)) \ DOMAIN consensus_list
    /\ \E j \in 1..Len(dataframes) :
          \E r \in calculate_consensus(dataframes[j], ranks, call.threshold,
                                       call.method, call.exclude_missing_data) :
              /\ r.status = "ok"
              /\ consensus_list' = WithResult(consensus_list, k, r)
    /\ UNCHANGED <<df, ranks, call, pc, result, non_unique, pass, existing,
                   dataframes>>
    /\ UNCHANGED scriptVars

\* A worker of the pool returns the consensus of the k-th frame.
Worker(k) ==
    /\ pc = "mapping"
    /\ k \in (1..Len(dataframes)) \ DOMAIN consensus_list
    /\ \E r \in calculate_consensus(dataframes[k], ranks, call.threshold,
                                    call.method, call.exclude_missing_data) :
          /\ r.status = "ok"
          /\ consensus_list' = WithResult(consensus_list, k, r)
    /\ UNCHANGED <<df, ranks, call, pc, result, non_unique, pass, existing,
                   dataframes>>
    /\ UNCHANGED scriptVars

\* A faulty variant of WorkerRaises: the failure is kept as the result of
\* the frame and the run goes on.
WorkerSwallows(k) ==
    /\ pc = "mapping"
    /\ k \in (1..Len(dataframes)) \ DOMAIN consensus_list
    /\ \E r \in calculate_consensus(dataframes[k], ranks, call.threshold,
                                    call.method, call.exclude_missing_data) :
          /\ r.status # "ok"
          /\ consensus_list' = WithResult(consensus_list, k, r)
    /\ UNCHANGED <<df, ranks, call, pc, result, non_unique, pass, existing,
                   dataframes>>
    /\ UNCHANGED scriptVars

\* calculate_consensus raises in a worker: p.map raises in main.
WorkerRaises(k) ==
    /\ pc = "mapping"
    /\ k \in (1..Len(dataframes)) \ DOMAIN consensus_list
    /\ \E r \in calculate_consensus(dataframes[k], ranks, call.threshold,
                                    call.method, call.exclude_missing_data) :
          r.status # "ok"
    /\ pc' = "aborted"
    /\ UNCHANGED <<df, ranks, call, result, non_unique, pass, existing,
                   dataframes, consensus_list>>
    /\ UNCHANGED scriptVars

\* p.map has returned: the results and the unambiguous BINs are
\* concatenated, the rows of the baseline without a computed BIN are put in
\* front, and the table is written.
Concatenate ==
    /\ pc = "mapping"
    /\ DOMAIN consensus_list = 1..Len(dataframes)
    /\ LET computed == consensus_df(consensus_list, df, ranks)
           kept == IF Len(existing) > 0 THEN DropComputed(existing, computed)
                   ELSE existing
       IN  /\ existing' = IF call.use_existing THEN kept ELSE existing
           /\ result' = IF call.use_existing THEN kept \o computed
                        ELSE computed
    /\ pc' = "done"
    /\ UNCHANGED <<df, ranks, call, non_unique, pass, dataframes,
                   consensus_list>>
    /\ UNCHANGED scriptVars

NextMain ==
    \/ LoadTaxonomy
    \/ StartPool
    \/ \E k \in 1..Len(InputBins) : Worker(k)
    \/ \E k \in 1..Len(InputBins) : WorkerRaises(k)
    \/ Concatenate

SpecMain == InitMain /\ [][NextMain]_vars

----------------------------------------------------------------------------
(* Properties of the orchestrator.                                         *)

\* The number of rows of table for the BIN b.
RowsOfBin(table, b) == Cardinality({j \in 1..Len(table) : table[j].bin_uri = b})

\* The BINs of the records of the input file.
BinsOfInput == {r.bin_uri : r \in Rows(df)}

\* The BINs with one lineage among the records of the input file.
UnambiguousBins ==
    {b \in BinsOfInput :
        \A r1, r2 \in Rows(df) :
            r1.bin_uri = b /\ r2.bin_uri = b => r1 = r2}

\* C19: the table main writes, with or without a baseline, has one row for
\* every BIN of the input and no BIN twice.
C19_OneRowPerBin ==
    pc = "done" =>
        /\ \A b \in BinsOfInput : RowsOfBin(result, b) = 1
        /\ \A j \in 1..Len(result) : RowsOfBin(result, result[j].bin_uri) = 1

\* A table is written from a baseline and an input with three BINs, one of
\* one lineage and two of several; the baseline holds the first, one of the
\* others and a BIN that is not in the input.
C19_Witness ==
    /\ pc = "done" /\ call.use_existing
    /\ Len(call.baseline) = 3
    /\ Cardinality(BinsOfInput) = 3
    /\ Cardinality(UnambiguousBins) = 1
    /\ \E r1, r2, r3 \in Rows(call.baseline) :
          /\ r1.bin_uri \in UnambiguousBins
          /\ r2.bin_uri \in BinsOfInput \ UnambiguousBins
          /\ r3.bin_uri \notin BinsOfInput

\* The rows main computes in this run: the results of the workers and the
\* BINs of one lineage.
Fresh ==
    Rows(ConsensusRows(consensus_list))
        \cup {[bin_uri |-> r.bin_uri, lineage |-> GroupKey(r, ranks)] :
                r \in {x \in Rows(df) : x.bin_uri \in UnambiguousBins}}

FreshBins == {row.bin_uri : row \in Fresh}

\* C20 as stated: the written table holds the freshly computed rows and
\* every row of the baseline whose BIN is not freshly computed, also for a
\* BIN that is not in the input; for a BIN in both it holds the fresh row.
C20_BaselineKeptWhole ==
    (pc = "done" /\ call.use_existing) =>
        Rows(result) =
            Fresh \cup {row \in Rows(call.baseline) : row.bin_uri \notin FreshBins}

\* C20 amended: the written table holds the freshly computed rows and every
\* row of the baseline whose BIN is in the input and not freshly computed;
\* for a BIN in both it holds the fresh row only.
C20_BaselineKeptForInputBins ==
    (pc = "done" /\ call.use_existing) =>
        /\ Rows(result) =
              Fresh \cup {row \in Rows(call.baseline) :
                            /\ row.bin_uri \in BinsOfInput
                            /\ row.bin_uri \notin FreshBins}
        /\ \A row \in Rows(result) :
              row.bin_uri \in FreshBins => row \in Fresh

\* A table is written where the baseline holds a BIN that is freshly
\* computed, a BIN of the input that is not, and a BIN that is not in the
\* input.
C20_Witness ==
    /\ pc = "done" /\ call.use_existing
    /\ \E r1, r2, r3 \in Rows(call.baseline) :
          /\ r1.bin_uri \in FreshBins /\ r1 \notin Rows(result)
          /\ r2.bin_uri \in BinsOfInput \ FreshBins /\ r2 \in Rows(result)
          /\ r3.bin_uri \notin BinsOfInput /\ r3 \notin Rows(result)

\* The frames of dataframes on which calculate_consensus raises.
FailingFrames ==
    {k \in 1..Len(dataframes) :
        \E r \in calculate_consensus(dataframes[k], ranks, call.threshold,
                                     call.method, call.exclude_missing_data) :
            r.status # "ok"}

\* C21: when calculate_consensus fails for one of the frames handed to the
\* pool the run never writes a table, not even of the frames that succeeded,
\* and an aborted run takes no further step.
C21_WorkerFailureAborts ==
    /\ [](FailingFrames # {} => (pc # "done" /\ result = <<>>))
    /\ [][pc # "aborted"]_vars

\* A run is aborted by a failing frame after another frame has returned its
\* consensus; nothing is written.
C21_Witness ==
    /\ pc = "aborted"
    /\ FailingFrames # {}
    /\ DOMAIN consensus_list # {}
    /\ result = <<>>

\* The results calculate_consensus can return for the k-th frame: a function
\* of the frame and of the options, not of the pool.
ConsensusOfFrame(k) ==
    {r \in calculate_consensus(dataframes[k], ranks, call.threshold,
                               call.method, call.exclude_missing_data) :
        r.status = "ok"}

\* C25: the frames handed to the pool are of pairwise different BINs, the
\* result collected for a frame is a consensus of that frame alone, whatever
\* the number of cpus and the order in which the frames are completed, a
\* result once collected is never recomputed or overwritten, and the table
\* is written from exactly one result for each frame.
C25_PoolIndependent ==
    /\ [](/\ \A j, k \in 1..Len(dataframes) :
                j # k => dataframes[j][1].bin_uri # dataframes[k][1].bin_uri
          /\ \A k \in DOMAIN consensus_list :
                /\ k \in 1..Len(dataframes)
                /\ consensus_list[k] \in ConsensusOfFrame(k)
          /\ pc = "done" => DOMAIN consensus_list = 1..Len(dataframes))
    /\ [][\A k \in DOMAIN consensus_list :
              /\ k \in DOMAIN consensus_list'
              /\ consensus_list'[k] = consensus_list[k]]_vars

\* With two cpus the second of two frames is completed before the first.
C25_Witness ==
    /\ pc = "mapping"
    /\ call.cpus = 2
    /\ Len(dataframes) = 2
    /\ DOMAIN consensus_list = {2}
    /\ consensus_list[2].bin_uri = dataframes[2][1].bin_uri

\* The rows of a written table as records with one column per rank.
AsRecords(table) ==
    [k \in 1..Len(table) |->
        [processid |-> k, bin_uri |-> table[k].bin_uri,
         family |-> table[k].lineage[1], genus |-> table[k].lineage[2],
         species |-> table[k].lineage[3]]]

\* No label of table has more than one distinct ancestor path.
OnePathPerLabel(table) ==
    \A i \in 2..Len(ranks) :
        \A l \in LabelsIn(table) : Cardinality(AncestorPaths(table, i, l)) <= 1

\* C26: the table written by main of consensus_taxonomy has been reconciled:
\* it contains no label with more than one distinct ancestor path.
C26_EmittedConflictFree ==
    pc = "done" => OnePathPerLabel(AsRecords(result))

\* No frame is handed to the pool for BIN b and no result is collected for it.
NotComputed(b) ==
    /\ \A k \in 1..Len(dataframes) : dataframes[k][1].bin_uri # b
    /\ \A k \in DOMAIN consensus_list : consensus_list[k].bin_uri # b

\* The written table holds the row of the baseline for its BIN, and no other.
EmittedFromBaseline(row) ==
    /\ row \in Rows(result)
    /\ RowsOfBin(result, row.bin_uri) = 1

\* C27 as stated: for every BIN of the supplied baseline no consensus is
\* computed from the input records and the written table holds the lineage
\* of the baseline for that BIN.
C27_BaselineShortCircuit ==
    call.use_existing =>
        \A row \in Rows(call.baseline) :
            /\ NotComputed(row.bin_uri)
            /\ pc = "done" => EmittedFromBaseline(row)

\* C27 amended: for every BIN of the supplied baseline that has more than
\* one distinct lineage in the input no consensus is computed and the
\* written table holds the lineage of the baseline; a BIN with one lineage
\* in the input is written with that lineage, and a BIN of the baseline that
\* is not in the input is not written.
C27_BaselineShortCircuitAmbiguous ==
    call.use_existing =>
        \A row \in Rows(call.baseline) :
            /\ NotComputed(row.bin_uri)
            /\ pc = "done" =>
                  /\ row.bin_uri \in BinsOfInput \ UnambiguousBins =>
                        EmittedFromBaseline(row)
                  /\ row.bin_uri \in UnambiguousBins =>
                        \A q \in Rows(result) :
                            q.bin_uri = row.bin_uri =>
                                \E r \in Rows(df) :
                                    /\ r.bin_uri = q.bin_uri
                                    /\ q.lineage = GroupKey(r, ranks)
                  /\ row.bin_uri \notin BinsOfInput =>
                        RowsOfBin(result, row.bin_uri) = 0

\* A table is written where the baseline holds a BIN with two lineages in
\* the input, a BIN with one, and a BIN that is not in the input.
C27_Witness ==
    /\ pc = "done" /\ call.use_existing
    /\ \E r1, r2, r3 \in Rows(call.baseline) :
          /\ r1.bin_uri \in BinsOfInput \ UnambiguousBins
          /\ EmittedFromBaseline(r1)
          /\ r2.bin_uri \in UnambiguousBins
          /\ r3.bin_uri \notin BinsOfInput

\* C29: a run on a non-empty input in which no BIN needs a consensus computation (every BIN of
\* the input has one lineage, or every BIN with several is in the baseline)
\* is not aborted: it goes on to write every BIN of the input.
C29_CompletesWithoutComputation ==
    (pc # "start" /\ Len(df) > 0 /\ Len(dataframes) = 0) => pc # "aborted"

----------------------------------------------------------------------------
(* The resolved part of a consensus.                                       *)

\* The labels of the result at the ranks up to last_known_rank are the
\* labels of the j-th record of the BIN at those ranks.
ResolvedPathOf(j) ==
    \A k \in 1..result.last_known_rank : result.lineage[k] = df[j][ranks[k]]

\* C30: for either method the labels of a returned consensus at its resolved
\* ranks are the labels of one record of the BIN at those ranks.
C30_ResolvedPathFromInput ==
    Ok => \E j \in 1..Len(df) : ResolvedPathOf(j)

\* Method 'rank' resolves a label below the first rank that records with
\* different ancestors carry: the ancestors returned are those of one of them.
C30_Witness ==
    /\ Ok /\ call.method = "rank"
    /\ result.last_known_rank > 1
    /\ \E j, k \in 1..Len(df) :
          /\ df[j][ranks[result.last_known_rank]]
                = result.lineage[result.last_known_rank]
          /\ ~ResolvedPathOf(j)
          /\ ResolvedPathOf(k)

----------------------------------------------------------------------------
(* The scope of a repair.                                                  *)

\* The record carries no label reported by find_non_unique, at any rank.
CarriesNoConflict(r) ==
    \A i \in 1..Len(ranks) : r[RankAt(i)] \notin non_unique[RankAt(i)]

\* C22: a record of the table handed to fix_non_unique_lineages that carries
\* no conflicting label at any rank is in the returned table with all its
\* labels as they were, whatever happens to the other records of its BIN.
C22_ScopedByLabel ==
    pc = "fixed" =>
        \A r \in Rows(df) : CarriesNoConflict(r) => r \in Rows(result)

----------------------------------------------------------------------------
(* A run of the repair script (main of fix_non_unique_lineages.py), with   *)
(* the two loops of fix_non_unique_lineages taken one label at a time.     *)

\* The largest number of records in the input file of the script.
MaxScriptRows == 4

\* Lineages of the records of the input file: two species, each under a
\* genus and under the placeholder genus of one family, and the first
\* species under the same genus name of a second family.
ScriptLineages ==
    << Lineage(<<"G">>, <<"A">>, <<"h">>),
       Lineage(<<"G">>, <<"G", "_", "X">>, <<"h">>),
       Lineage(<<"G">>, <<"A">>, <<"l">>),
       Lineage(<<"G">>, <<"G", "_", "X">>, <<"l">>),
       Lineage(<<"N">>, <<"A">>, <<"h">>) >>

\* The input files of at most MaxScriptRows records, one record order per
\* multiset of (lineage, BIN) pairs; processid numbers the records.
ScriptTables ==
    UNION { { [j \in 1..k |-> Record(j, BinUris[b[j]], ScriptLineages[ix[j]])] :
                <<ix, b>> \in
                    { p \in [1..k -> 1..Len(ScriptLineages)]
                              \X [1..k -> 1..Len(BinUris)] :
                        \A j \in 1..(k - 1) :
                            \/ p[1][j] < p[1][j + 1]
                            \/ p[1][j] = p[1][j + 1] /\ p[2][j] <= p[2][j + 1] } } :
            k \in 0..MaxScriptRows }

\* df.filter(pl.col(rank).is_in(non_unique[rank]) | ...): the records with
\* a reported label in one of the rank columns.
Dups(table, conflicts) ==
    SelectSeq(table, LAMBDA r :
        \E i \in 1..Len(AllRanks) : r[AllRanks[i]] \in conflicts[AllRanks[i]])

\* A faulty variant of RankOrder: the ranks are taken from the last to the
\* first.
RankOrderDescending(rks) == [k \in 1..Len(rks) |-> rks[Len(rks) + 1 - k]]

\* 'for rank in ranks': the order in which the outer loop takes the ranks.
RankOrder(rks) == rks

\* The number of ranks the outer loop has taken when its rank is name.
Taken(order, name) ==
    IF name = "" THEN 0 ELSE CHOOSE k \in 1..Len(order) : order[k] = name

\* df.filter(~pl.col("processid").is_in(unique_df processids)) followed by
\* unique_df: the table main writes.
Written(table, fixed) ==
    SelectSeq(table, LAMBDA r :
        \A j \in 1..Len(fixed) : fixed[j].processid # r.processid) \o fixed

InitScript ==
    /\ df \in ScriptTables
    /\ ranks = AllRanks
    /\ call = NoCall
    /\ pc = "start"
    /\ result = <<>>
    /\ non_unique = <<>>
    /\ pass = 0
    /\ existing = <<>>
    /\ dataframes = <<>>
    /\ consensus_list = <<>>
    /\ ScriptIdle

\* main up to the call: find_non_unique on the input file, the records with
\* a reported label, and the entry of fix_non_unique_lineages on them.
FindDups ==
    /\ pc = "start"
    /\ non_unique' = find_non_unique(df, ranks)
    /\ dups' = Dups(df, non_unique')
    /\ fix_df' = dups'
    /\ bins_to_remove' = {}
    /\ loop_rank' = ""
    /\ loop_taxa' = {}
    /\ pc' = "fixing"
    /\ UNCHANGED <<df, ranks, call, result, pass, existing, dataframes,
                   consensus_list, unique_df>>

\* The outer loop takes its next rank: taxa = non_unique[rank].
EnterRank ==
    /\ pc = "fixing"
    /\ loop_taxa = {}
    /\ Taken(RankOrder(ranks), loop_rank) < Len(ranks)
    /\ loop_rank' = RankOrder(ranks)[Taken(RankOrder(ranks), loop_rank) + 1]
    /\ loop_taxa' = IF loop_rank' \in DOMAIN non_unique
                    THEN non_unique[loop_rank'] ELSE {}
    /\ UNCHANGED <<df, ranks, call, pc, result, non_unique, pass, existing,
                   dataframes, consensus_list, dups, fix_df, bins_to_remove,
                   unique_df>>

\* The inner loop takes one label of the rank, in any order.
FixOne ==
    /\ pc = "fixing"
    /\ \E t \in loop_taxa :
          LET st == FixTaxon([df |-> fix_df, bins_to_remove |-> bins_to_remove],
                             ranks, loop_rank, t)
          IN  /\ fix_df' = st.df
              /\ bins_to_remove' = st.bins_to_remove
              /\ loop_taxa' = loop_taxa \ {t}
    /\ UNCHANGED <<df, ranks, call, pc, result, non_unique, pass, existing,
                   dataframes, consensus_list, dups, loop_rank, unique_df>>

\* return df.filter(~pl.col("bin_uri").is_in(bins_to_remove)), assigned to
\* unique_df in main.
Return ==
    /\ pc = "fixing"
    /\ loop_taxa = {}
    /\ Taken(RankOrder(ranks), loop_rank) = Len(ranks)
    /\ unique_df' = DropBins(fix_df, bins_to_remove)
    /\ pc' = "returned"
    /\ UNCHANGED <<df, ranks, call, result, non_unique, pass, existing,
                   dataframes, consensus_list, dups, fix_df, bins_to_remove,
                   loop_rank, loop_taxa>>

\* pl.concat([...]).sink_csv(args.outfile)
Write ==
    /\ pc = "returned"
    /\ result' = Written(df, unique_df)
    /\ pc' = "written"
    /\ UNCHANGED <<df, ranks, call, non_unique, pass, existing, dataframes,
                   consensus_list>>
    /\ UNCHANGED scriptVars

NextScript == FindDups \/ EnterRank \/ FixOne \/ Return \/ Write

SpecScript == InitScript /\ [][NextScript]_vars

----------------------------------------------------------------------------
(* Properties of the run of the repair script.                             *)

\* The processid values of a table.
Ids(table) == {r.processid : r \in Rows(table)}

\* C23: while the pairs are processed every record handed to the function
\* stays in its table, marked for exclusion or not, and a BIN once marked
\* stays marked; the marked BINs are removed in the one filter of the
\* return, after the last pair.
C23_DeferredExclusion ==
    /\ [](pc = "fixing" =>
            /\ Len(fix_df) = Len(dups)
            /\ \A j \in 1..Len(dups) :
                  /\ fix_df[j].processid = dups[j].processid
                  /\ fix_df[j].bin_uri = dups[j].bin_uri)
    /\ [](pc \in {"returned", "written"} =>
            /\ loop_taxa = {}
            /\ loop_rank = ranks[Len(ranks)]
            /\ Ids(unique_df) =
                  {r.processid : r \in {q \in Rows(dups) :
                                          q.bin_uri \notin bins_to_remove}})
    /\ [][pc = "fixing" => bins_to_remove \subseteq bins_to_remove']_vars

\* A BIN has been marked for one label, a label of the rank is yet to be
\* processed, and a record of the marked BIN carries it.
C23_Witness ==
    /\ pc = "fixing"
    /\ loop_taxa # {}
    /\ \E r \in Rows(fix_df) :
          /\ r.bin_uri \in bins_to_remove
          /\ r[loop_rank] \in loop_taxa

\* C24: the ranks are processed from the first to the last, and a label
\* that is prefixed gets the label its record has at the parent rank at that
\* moment, as renamed by the ranks before.
C24_RankOrderOnRepairedTable ==
    /\ [][(pc = "fixing" /\ pc' = "fixing" /\ loop_rank # "") =>
            IndexOf(ranks, loop_rank') >= IndexOf(ranks, loop_rank)]_vars
    /\ [][(pc = "fixing" /\ pc' = "fixing") =>
            \A j \in 1..Len(fix_df) :
                fix_df'[j] # fix_df[j] =>
                    \E i \in 2..Len(ranks) :
                        /\ ranks[i] = loop_rank
                        /\ fix_df'[j] =
                              [fix_df[j] EXCEPT ![ranks[i]] =
                                  fix_df[j][ranks[i - 1]] \o <<"_">>
                                      \o fix_df[j][ranks[i]]]]_vars

\* A species is prefixed with the label of its genus, which the repair of
\* the genus rank had renamed before.
C24_Witness ==
    /\ pc = "fixing"
    /\ \E j \in 1..Len(fix_df) :
          /\ fix_df[j].genus # dups[j].genus
          /\ fix_df[j].species
                = fix_df[j].genus \o <<"_">> \o dups[j].species

\* C28: the table main writes holds no record of a BIN that
\* fix_non_unique_lineages marked for exclusion, and no label of it has more
\* than one distinct ancestor path.
C28_WrittenTable ==
    pc = "written" =>
        /\ \A r \in Rows(result) : r.bin_uri \notin bins_to_remove
        /\ OnePathPerLabel(result)

====
